---- MODULE Spec2Model ----
\* vnstock-mcp-server: the Node.js wrapper (src/index.js), the published
\* launcher (bin/vnstock-mcp-server.js) and the Python child they supervise.
\*
\* A step of the model is one turn of the Node event loop: the completion of the
\* command a process awaits, together with everything its continuation runs
\* synchronously up to the next await (or up to process.exit).
EXTENDS Integers, Sequences, FiniteSets, TLC

\* ---------------------------------------------------------------- bounds
\* External SIGINT/SIGTERM deliveries in one run.
MaxSignals == 2
\* The stopwatch started by shutdown() advances in steps of TickMs up to MaxElapsed.
TickMs == 2500
MaxElapsed == 7500
\* Version triples fed to isValidPythonVersion: 0..MaxMajor . 0..MaxMinor . 0..MaxPatch
MaxMajor == 4
MaxMinor == 12
MaxPatch == 4
\* Chunks the child writes on each of its output channels.
MaxChunks == 2

\* ------------------------------------------------------- program constants
\* setTimeout(..., 5000) in shutdown
GRACE_MS == 5000
\* the `code` argument of 'close' when the child was ended by a signal (null)
NullCode == -1

pythonCommands == <<"python3", "python">>
requiredPackages == <<"vnstock", "mcp", "pandas">>
\* DependencyInstaller.requiredPackages
installerPackages ==
    << [name |-> "vnstock", version |-> ">=3.2.0"],
       [name |-> "mcp", version |-> ">=0.1.0"],
       [name |-> "pandas", version |-> ">=1.5.0"],
       [name |-> "asyncio-compat", version |-> ">=0.2.0"] >>
Signals == {"SIGINT", "SIGTERM"}
\* stdio: ['pipe', 'pipe', 'pipe']: the two output pipes of the child
Channels == {"stdout", "stderr"}
Flags == {"--help", "-h", "--test", "--install-deps", "--version"}
\* exit statuses the Python child may end with (NullCode: ended by a signal)
ChildCodes == {0, 3, NullCode}

\* ------------------------------------------------------------ pure helpers
Digits == <<"0", "1", "2", "3", "4", "5", "6", "7", "8", "9">>

DigitVal(ch) == CHOOSE d \in 0..9 : Digits[d + 1] = ch

\* String.prototype.split('.') on a string held as a sequence of characters
RECURSIVE SplitOn(_, _, _)
SplitOn(str, sep, cur) ==
    IF str = <<>> THEN <<cur>>
    ELSE IF Head(str) = sep THEN <<cur>> \o SplitOn(Tail(str), sep, <<>>)
    ELSE SplitOn(Tail(str), sep, Append(cur, Head(str)))

split(str, sep) == SplitOn(str, sep, <<>>)

\* Number(s) for a string of decimal digits
RECURSIVE NumberAcc(_, _)
NumberAcc(str, acc) ==
    IF str = <<>> THEN acc ELSE NumberAcc(Tail(str), acc * 10 + DigitVal(Head(str)))

Number(str) == NumberAcc(str, 0)

\* the decimal text of a natural number, as the interpreter prints it
RECURSIVE ToDecimal(_)
ToDecimal(n) ==
    IF n < 10 THEN <<Digits[n + 1]>> ELSE Append(ToDecimal(n \div 10), Digits[(n % 10) + 1])

\* "major.minor.patch", the token /Python (\d+\.\d+\.\d+)/ captures
VersionText(t) == ToDecimal(t[1]) \o <<".">> \o ToDecimal(t[2]) \o <<".">> \o ToDecimal(t[3])

isValidPythonVersionStrict(version) ==
    LET parts == [i \in 1..Len(split(version, ".")) |-> Number(split(version, ".")[i])]
    IN parts[1] = 3 /\ parts[2] > 8

isValidPythonVersionAnyMinor(version) ==
    LET parts == [i \in 1..Len(split(version, ".")) |-> Number(split(version, ".")[i])]
    IN parts[1] = 3

\* const [major, minor] = version.split('.').map(Number); major === 3 && minor >= 8
isValidPythonVersion(version) ==
    LET parts == [i \in 1..Len(split(version, ".")) |-> Number(split(version, ".")[i])]
        major == parts[1]
        minor == parts[2]
    IN major = 3 /\ minor >= 8

\* testPythonVersion: `major !== 3 || minor < 8` rejects
testPythonVersionAccepts(version) ==
    LET parts == [i \in 1..Len(split(version, ".")) |-> Number(split(version, ".")[i])]
        major == parts[1]
        minor == parts[2]
    IN ~(major # 3 \/ minor < 8)

\* process.exit(code): null leaves the exit code at its default 0
ProcessExitCode(code) == IF code = NullCode THEN 0 ELSE code % 256

\* what `<python> --version` can yield: the exec fails, the output does not
\* match the pattern, or a version token is captured
SampleVersions == {<<3, 7, 9>>, <<3, 11, 4>>, <<4, 0, 0>>}

VersionOutcomes ==
    {[status |-> "error", text |-> <<>>], [status |-> "nomatch", text |-> <<>>]}
    \cup {[status |-> "ok", text |-> VersionText(t)] : t \in SampleVersions}


\* argument vectors given on the command line
ArgSets == {a \in SUBSET Flags : Cardinality(a) <= 1} \cup {{"--version", "--help"}, {"--test", "--version"}}

\* ---------------------------------------------------------------- state
VARIABLES
    \* the environment
    resolves,          \* resolves[c]: which(c) finds command c on the search path
    importable,        \* the packages `import` currently succeeds for
    importable0,       \* ... when the run started
    serverFileExists,  \* fs.existsSync(pythonServerPath)
    \* the launcher process (bin/vnstock-mcp-server.js)
    entry,             \* "bin": started through the launcher; "direct": node src/index.js
    argv,              \* the arguments given to the entry point
    launcher,          \* "absent" | "start" | "running" | "exited"
    launcherExit,      \* its exit code once exited
    launcherError,     \* its child's 'error' event is queued
    launcherCloseSeen, \* its 'close' handler has run
    launcherCloseCode, \* ... with this code
    launcherSent,      \* signals child.kill() delivered to the wrapper, in order
    launcherSig,       \* signals delivered to the launcher, not yet handled
    \* the wrapper process (src/index.js)
    wrapper,           \* "notstarted" | "running" | "exited" | "killed"
    wrapperExit,       \* its exit code once exited
    wpc,               \* what main awaits
    inFlight,          \* the interpreter/package-manager commands started and not yet settled
    args,              \* process.argv.slice(2)
    mode,              \* the branch main took
    \* VnstockMCPWrapper: verification
    candIdx,           \* index into pythonCommands
    pkgIdx,            \* index into requiredPackages
    pythonPath,        \* this.pythonPath: "null" or the command it was resolved from
    probeLog,          \* commands passed to which(), in order
    versionLog,        \* results of getPythonVersion(), in order
    checkLog,          \* results of checkPythonPackage(), in order
    installLog,        \* results of installPythonPackage(), in order
    \* DependencyInstaller
    installerPath,     \* its this.pythonPath
    upgraded,          \* upgradePackageManager: "none" | "ok" | "failed"
    \* VnstockMCPWrapper: supervision
    child,             \* the Python process: "none" | "spawnfailed" | "running" | "exited"
    childStatus,       \* its exit status once exited
    childExitAt,       \* the stopwatch reading when it exited
    childExitAfterKill,\* it exited after a signal of the wrapper reached it
    spawnCount,        \* calls of spawn()
    killed,            \* this.serverProcess.killed
    sentSignals,       \* signals serverProcess.kill() delivered, in order
    handlers,          \* the SIGINT/SIGTERM handlers are installed
    closeObserved,     \* the 'close' handler has run
    closeCode,         \* ... with this code
    errorPending,      \* the child's 'error' event is queued
    stdinOpen,         \* process.stdin is resumed and has not ended
    timerPending,      \* the escalation timer is armed and its process is alive
    timersArmed,       \* calls of setTimeout()
    elapsed,           \* ms since shutdown() ran
    \* signals
    sigPending,        \* signals delivered to the wrapper, not yet handled
    envSignals,        \* external deliveries so far
    \* isValidPythonVersion applied to an input
    verNums,           \* the version triple
    versionArg,        \* its text
    versionValid,      \* "unset" | "true" | "false"
    \* the child's output
    emitted,           \* emitted[ch]: the chunks the child wrote on channel ch, in order
    pipe,              \* pipe[ch]: those the wrapper has not read yet
    written,           \* written[ch]: the chunks written to the wrapper's own stream ch
    logged,            \* logged[ch]: the texts main itself wrote to its stream ch
    \* ConnectionTester (src/test-connection.js, run standalone)
    tester,            \* "absent" | "running" | "exited"
    testerExit,        \* its exit code once exited
    tpc,               \* the diagnostic whose command runTests awaits
    testerIdx,         \* index into the list the diagnostic iterates over
    testerPath,        \* its this.pythonPath: "null" or the command it was resolved from
    testerProbes,      \* commands it passed to which(), in order
    versionQueries,    \* interpreters testPythonVersion ran with --version, in order
    importLog,         \* results of checkPackageImport(), in order
    missingPackages,   \* missingPackages of testPackageAvailability
    testResults        \* this.testResults

envVars == <<resolves, importable, importable0, serverFileExists>>
launcherVars == <<entry, argv, launcher, launcherExit, launcherError, launcherCloseSeen,
                  launcherCloseCode, launcherSent, launcherSig>>
procVars == <<wrapper, wrapperExit, wpc, inFlight>>
mainVars == <<args, mode>>
verifVars == <<candIdx, pkgIdx, pythonPath, probeLog, versionLog, checkLog, installLog>>
instVars == <<installerPath, upgraded>>
supVars == <<child, childStatus, childExitAt, childExitAfterKill, spawnCount, killed, sentSignals, handlers,
             closeObserved, closeCode, errorPending, stdinOpen, timerPending, timersArmed,
             elapsed>>
sigVars == <<sigPending, envSignals>>
pureVars == <<verNums, versionArg, versionValid>>
ioVars == <<emitted, pipe, written, logged>>
testerVars == <<tester, testerExit, tpc, testerIdx, testerPath, testerProbes, versionQueries,
                importLog, missingPackages, testResults>>

vars == <<envVars, launcherVars, procVars, mainVars, verifVars, instVars, instVars, supVars, sigVars,
          pureVars, ioVars, testerVars>>

Packages == {requiredPackages[i] : i \in 1..Len(requiredPackages)}

\* verifyPackage: the module imported to verify a package
ImportName(packageName) == IF packageName = "asyncio-compat" THEN "asyncio" ELSE packageName

ImportNames == Packages \cup {ImportName(installerPackages[i].name) : i \in 1..Len(installerPackages)}
Commands == {pythonCommands[i] : i \in 1..Len(pythonCommands)}

\* the state of the objects after construction (constructor, index.js 13-18)
InitProgram ==
    /\ launcherExit = NullCode
    /\ launcherError = FALSE
    /\ launcherCloseSeen = FALSE
    /\ launcherCloseCode = NullCode
    /\ launcherSent = <<>>
    /\ launcherSig = {}
    /\ wrapperExit = NullCode
    /\ wpc = "start"
    /\ inFlight = <<>>
    /\ mode = "none"
    /\ candIdx = 1
    /\ pkgIdx = 1
    /\ pythonPath = "null"
    /\ probeLog = <<>>
    /\ versionLog = <<>>
    /\ checkLog = <<>>
    /\ installLog = <<>>
    /\ installerPath = "null"
    /\ upgraded = "none"
    /\ child = "none"
    /\ childStatus = NullCode
    /\ childExitAt = 0
    /\ childExitAfterKill = FALSE
    /\ spawnCount = 0
    /\ killed = FALSE
    /\ sentSignals = <<>>
    /\ handlers = FALSE
    /\ closeObserved = FALSE
    /\ closeCode = NullCode
    /\ errorPending = FALSE
    /\ stdinOpen = FALSE
    /\ timerPending = FALSE
    /\ timersArmed = 0
    /\ elapsed = 0
    /\ sigPending = {}
    /\ envSignals = 0
    /\ emitted = [ch \in Channels |-> <<>>]
    /\ pipe = [ch \in Channels |-> <<>>]
    /\ written = [ch \in Channels |-> <<>>]
    /\ logged = [ch \in Channels |-> <<>>]
    /\ testerExit = NullCode
    /\ testerIdx = 1
    /\ testerPath = "null"
    /\ testerProbes = <<>>
    /\ versionQueries = <<>>
    /\ importLog = <<>>
    /\ missingPackages = <<>>
    /\ testResults = <<>>

\* node src/index.js <argv>
Init ==
    /\ resolves \in [Commands -> BOOLEAN]
    /\ entry = "direct"
    /\ argv \in ArgSets
    \* only the --install-deps branch imports asyncio
    /\ importable \in {i \in SUBSET ImportNames : "--install-deps" \in argv \/ "asyncio" \in i}
    /\ importable0 = importable
    /\ serverFileExists \in BOOLEAN
    /\ launcher = "absent"
    /\ wrapper = "running"
    /\ args = argv
    /\ InitProgram
    /\ tester = "absent"
    /\ tpc = "none"
    /\ verNums = <<0, 0, 0>>
    /\ versionArg = <<>>
    /\ versionValid = "unset"

\* vnstock-mcp-server <argv>, the published executable; the environments are
\* those in which at most the last required package is missing
InitBin ==
    /\ resolves \in [Commands -> BOOLEAN]
    /\ importable \in {ImportNames, ImportNames \ {requiredPackages[Len(requiredPackages)]}}
    /\ importable0 = importable
    /\ serverFileExists \in BOOLEAN
    /\ entry = "bin"
    /\ argv \in {{}, {"--help"}}
    /\ launcher = "start"
    /\ wrapper = "notstarted"
    /\ args = {}
    /\ InitProgram
    /\ tester = "absent"
    /\ tpc = "none"
    /\ verNums = <<0, 0, 0>>
    /\ versionArg = <<>>
    /\ versionValid = "unset"

\* ------------------------------------------------- the wrapper: main, verify
\* the positions of main at which it awaits an external command (which, exec)
CommandPcs == {"which", "version", "check", "install", "i_which", "i_upgrade", "i_install", "i_verify"}

\* the commands in flight but the one that has just settled
RECURSIVE Settle(_, _)
Settle(commands, pc) ==
    IF commands = <<>> THEN <<>>
    ELSE IF Head(commands) = pc THEN Tail(commands)
    ELSE <<Head(commands)>> \o Settle(Tail(commands), pc)

\* the awaited command has settled and main runs on to its next await, at pc
Goto(pc) ==
    /\ wpc' = pc
    /\ inFlight' = Settle(inFlight, wpc) \o (IF pc \in CommandPcs THEN <<pc>> ELSE <<>>)
    /\ UNCHANGED <<wrapper, wrapperExit>>

\* process.exit(code)
Exit(code) ==
    /\ wpc' = "done"
    /\ inFlight' = Settle(inFlight, wpc)
    /\ wrapper' = "exited"
    /\ wrapperExit' = ProcessExitCode(code)

Running == wrapper = "running"

\* the first line of the text displayHelp prints
HelpText == "Vnstock MCP Server - Vietnamese Stock Market Data"

VersionLine == "vnstock-mcp-server version 1.0.0"

\* console.error(text): the text goes to the standard error stream
ConsoleError(text) == logged' = [logged EXCEPT !["stderr"] = Append(@, text)]

\* main: the argument switch, up to the first await of the branch taken
Main ==
    /\ Running /\ wpc = "start"
    /\ IF "--help" \in args \/ "-h" \in args
         THEN mode' = "help" /\ ConsoleError(HelpText) /\ Goto("returned")
       ELSE IF "--test" \in args
         THEN mode' = "test" /\ UNCHANGED logged /\ Goto("which")
       ELSE IF "--install-deps" \in args
         \* require('./install-deps') loads the module, or throws: the error
         \* leaves main and main().catch calls process.exit(1)
         THEN /\ mode' = "installdeps" /\ UNCHANGED logged
              /\ \E loaded \in BOOLEAN : IF loaded THEN Goto("i_which") ELSE Exit(1)
       ELSE IF "--version" \in args
         THEN mode' = "version" /\ ConsoleError(VersionLine) /\ Goto("returned")
       ELSE mode' = "serve" /\ UNCHANGED logged /\ Goto("which")
    /\ UNCHANGED <<envVars, launcherVars, args, verifVars, instVars, supVars, sigVars, pureVars,
                   emitted, pipe, written, testerVars>>

InitializeFailedReturns == Goto("returned") /\ UNCHANGED supVars

\* initialize() caught an error and returned false: main and testConnection
\* both call process.exit(1)
InitializeFailed == Exit(1) /\ UNCHANGED supVars

StartServerChecksLate ==
    /\ \E spawned \in BOOLEAN :
         /\ child' = IF spawned THEN "running" ELSE "spawnfailed"
         /\ errorPending' = ~spawned
    /\ spawnCount' = spawnCount + 1
    /\ handlers' = TRUE
    /\ IF ~serverFileExists \/ pythonPath = "null"
         THEN Exit(1) /\ stdinOpen' = stdinOpen
         ELSE Goto("serving") /\ stdinOpen' = TRUE
    /\ UNCHANGED <<childStatus, childExitAt, childExitAfterKill, killed, sentSignals, closeObserved,
                   closeCode, timerPending, timersArmed, elapsed>>

\* startServer, from its first line to process.stdin.resume(); a throw is
\* caught by main, which calls process.exit(1)
StartServer ==
    IF ~serverFileExists \/ pythonPath = "null"
      THEN Exit(1) /\ UNCHANGED supVars
      ELSE /\ Goto("serving")
           /\ \E spawned \in BOOLEAN :
                /\ child' = IF spawned THEN "running" ELSE "spawnfailed"
                /\ errorPending' = ~spawned
           /\ spawnCount' = spawnCount + 1
           /\ handlers' = TRUE
           /\ stdinOpen' = TRUE
           /\ UNCHANGED <<childStatus, childExitAt, childExitAfterKill, killed, sentSignals, closeObserved,
                          closeCode, timerPending, timersArmed, elapsed>>

InitializeSucceededAlwaysStarts == StartServer

\* initialize() returned true
InitializeSucceeded ==
    IF mode = "test" THEN Goto("returned") /\ UNCHANGED supVars ELSE StartServer

NextCandidateFallsThrough ==
    IF candIdx < Len(pythonCommands)
      THEN candIdx' = candIdx + 1 /\ Goto("which") /\ UNCHANGED supVars
      ELSE candIdx' = candIdx /\ Goto("check") /\ UNCHANGED supVars

\* checkPythonInstallation: the end of one pass of the loop over pythonCommands
NextCandidate ==
    IF candIdx < Len(pythonCommands)
      THEN candIdx' = candIdx + 1 /\ Goto("which") /\ UNCHANGED supVars
      ELSE candIdx' = candIdx /\ InitializeFailed

\* `await which(command)` settles
WhichDone ==
    /\ Running /\ wpc = "which"
    /\ LET command == pythonCommands[candIdx] IN
         /\ probeLog' = Append(probeLog, command)
         /\ IF resolves[command]
              THEN /\ pythonPath' = command
                   /\ candIdx' = candIdx
                   /\ Goto("version")
                   /\ UNCHANGED supVars
              ELSE /\ pythonPath' = pythonPath
                   /\ NextCandidate
    /\ UNCHANGED <<envVars, launcherVars, mainVars, instVars, pkgIdx, versionLog, checkLog, installLog,
                   sigVars, pureVars, ioVars, testerVars>>

VersionDoneNoReturn(out) ==
    /\ Running /\ wpc = "version"
    /\ versionLog' = Append(versionLog, [command |-> pythonCommands[candIdx], out |-> out])
    /\ pythonPath' = pythonPath
    /\ IF out.status = "ok" /\ isValidPythonVersion(out.text) /\ candIdx = Len(pythonCommands)
         THEN candIdx' = candIdx /\ Goto("check") /\ UNCHANGED supVars
         ELSE NextCandidate
    /\ UNCHANGED <<envVars, launcherVars, mainVars, instVars, pkgIdx, probeLog, checkLog,
                   installLog, sigVars, pureVars, ioVars, testerVars>>

VersionDoneWarnsOnly(out) ==
    /\ Running /\ wpc = "version"
    /\ versionLog' = Append(versionLog, [command |-> pythonCommands[candIdx], out |-> out])
    /\ pythonPath' = pythonPath
    /\ IF out.status = "ok"
         THEN candIdx' = candIdx /\ Goto("check") /\ UNCHANGED supVars
         ELSE NextCandidate
    /\ UNCHANGED <<envVars, launcherVars, mainVars, instVars, pkgIdx, probeLog, checkLog,
                   installLog, sigVars, pureVars, ioVars, testerVars>>

\* `await this.getPythonVersion()` settles with outcome out
VersionDone(out) ==
    /\ Running /\ wpc = "version"
    /\ versionLog' = Append(versionLog, [command |-> pythonCommands[candIdx], out |-> out])
    /\ pythonPath' = pythonPath
    /\ IF out.status = "ok" /\ isValidPythonVersion(out.text)
         THEN candIdx' = candIdx /\ Goto("check") /\ UNCHANGED supVars
         ELSE NextCandidate
    /\ UNCHANGED <<envVars, launcherVars, mainVars, instVars, pkgIdx, probeLog, checkLog, installLog,
                   sigVars, pureVars, ioVars, testerVars>>

NextPackageSkipsRest == pkgIdx' = pkgIdx /\ InitializeSucceeded

\* verifyPythonDependencies: the end of one pass of the loop over requiredPackages
NextPackage ==
    IF pkgIdx < Len(requiredPackages)
      THEN pkgIdx' = pkgIdx + 1 /\ Goto("check") /\ UNCHANGED supVars
      ELSE pkgIdx' = pkgIdx /\ InitializeSucceeded

CheckDoneStopsAtMissing ==
    /\ Running /\ wpc = "check"
    /\ LET packageName == requiredPackages[pkgIdx]
           ok == packageName \in importable
       IN /\ checkLog' = Append(checkLog, [package |-> packageName, ok |-> ok])
          /\ IF ok THEN NextPackage
                   ELSE pkgIdx' = pkgIdx /\ InitializeFailed
    /\ pythonPath' = pythonPath
    /\ UNCHANGED <<envVars, launcherVars, mainVars, instVars, candIdx, probeLog, versionLog, installLog,
                   sigVars, pureVars, ioVars, testerVars>>

\* `await this.checkPythonPackage(packageName)` settles
CheckDone ==
    /\ Running /\ wpc = "check"
    /\ LET packageName == requiredPackages[pkgIdx]
           ok == packageName \in importable
       IN /\ checkLog' = Append(checkLog, [package |-> packageName, ok |-> ok])
          /\ IF ok THEN NextPackage
                   ELSE pkgIdx' = pkgIdx /\ Goto("install") /\ UNCHANGED supVars
    /\ pythonPath' = pythonPath
    /\ UNCHANGED <<envVars, launcherVars, mainVars, instVars, candIdx, probeLog, versionLog, installLog,
                   sigVars, pureVars, ioVars, testerVars>>

\* the required packages the loop of verifyPythonDependencies has yet to pass
Remaining == {requiredPackages[i] : i \in pkgIdx..Len(requiredPackages)}

InstallDoneContinues(ok, gained) ==
    /\ Running /\ wpc = "install"
    /\ installLog' = Append(installLog, [package |-> requiredPackages[pkgIdx], ok |-> ok])
    /\ importable' = importable \cup gained
    /\ pythonPath' = pythonPath
    /\ NextPackage
    /\ UNCHANGED <<resolves, importable0, serverFileExists, launcherVars, mainVars, instVars,
                   candIdx, probeLog, versionLog, checkLog, sigVars, pureVars, ioVars, testerVars>>

InstallDoneRetries(ok, gained) ==
    /\ Running /\ wpc = "install"
    /\ installLog' = Append(installLog, [package |-> requiredPackages[pkgIdx], ok |-> ok])
    /\ importable' = importable \cup gained
    /\ pythonPath' = pythonPath
    /\ IF ok THEN NextPackage
       ELSE IF Len(installLog) < Len(requiredPackages)
         THEN pkgIdx' = pkgIdx /\ Goto("install") /\ UNCHANGED supVars
       ELSE pkgIdx' = pkgIdx /\ InitializeFailed
    /\ UNCHANGED <<resolves, importable0, serverFileExists, launcherVars, mainVars, instVars,
                   candIdx, probeLog, versionLog, checkLog, sigVars, pureVars, ioVars, testerVars>>

\* `await this.installPythonPackage(packageName)` settles: pip exited 0 (ok) or
\* not, and made the packages in `gained` importable (the package itself, its
\* dependencies, or nothing)
InstallDone(ok, gained) ==
    /\ Running /\ wpc = "install"
    /\ installLog' = Append(installLog, [package |-> requiredPackages[pkgIdx], ok |-> ok])
    /\ importable' = importable \cup gained
    /\ pythonPath' = pythonPath
    /\ IF ok THEN NextPackage ELSE pkgIdx' = pkgIdx /\ InitializeFailed
    /\ UNCHANGED <<resolves, importable0, serverFileExists, launcherVars, mainVars, instVars, candIdx,
                   probeLog, versionLog, checkLog, sigVars, pureVars, ioVars, testerVars>>


\* ------------------------------------------ the wrapper: --install-deps
\* locatePython: `await which(command)` settles
InstallerWhichDone ==
    /\ Running /\ wpc = "i_which"
    /\ LET command == pythonCommands[candIdx] IN
         /\ probeLog' = Append(probeLog, command)
         /\ IF resolves[command]
              THEN installerPath' = command /\ candIdx' = candIdx /\ Goto("i_upgrade")
              ELSE /\ installerPath' = installerPath
                   /\ IF candIdx < Len(pythonCommands)
                        THEN candIdx' = candIdx + 1 /\ Goto("i_which")
                        ELSE candIdx' = candIdx /\ Exit(1)
    /\ UNCHANGED <<envVars, launcherVars, mainVars, pkgIdx, pythonPath, versionLog, checkLog,
                   installLog, upgraded, supVars, sigVars, pureVars, ioVars, testerVars>>

InstallerUpgradeDoneFatal(ok) ==
    /\ Running /\ wpc = "i_upgrade"
    /\ upgraded' = IF ok THEN "ok" ELSE "failed"
    /\ pkgIdx' = 1
    /\ IF ok THEN Goto("i_install") ELSE Exit(1)
    /\ UNCHANGED <<envVars, launcherVars, mainVars, candIdx, pythonPath, probeLog, versionLog,
                   checkLog, installLog, installerPath, supVars, sigVars, pureVars, ioVars, testerVars>>

InstallerUpgradeDoneStartsAll(ok) ==
    /\ Running /\ wpc = "i_upgrade"
    /\ upgraded' = IF ok THEN "ok" ELSE "failed"
    /\ pkgIdx' = 1
    /\ wpc' = "i_install"
    /\ inFlight' = [i \in 1..Len(installerPackages) |-> "i_install"]
    /\ UNCHANGED <<wrapper, wrapperExit>>
    /\ UNCHANGED <<envVars, launcherVars, mainVars, candIdx, pythonPath, probeLog, versionLog,
                   checkLog, installLog, installerPath, supVars, sigVars, pureVars, ioVars, testerVars>>

\* upgradePackageManager settles: it resolves whether pip succeeded or not
InstallerUpgradeDone(ok) ==
    /\ Running /\ wpc = "i_upgrade"
    /\ upgraded' = IF ok THEN "ok" ELSE "failed"
    /\ pkgIdx' = 1
    /\ Goto("i_install")
    /\ UNCHANGED <<envVars, launcherVars, mainVars, candIdx, pythonPath, probeLog, versionLog,
                   checkLog, installLog, installerPath, supVars, sigVars, pureVars, ioVars, testerVars>>

InstallerInstallDoneContinues(ok, gained) ==
    /\ Running /\ wpc = "i_install"
    /\ LET pkg == installerPackages[pkgIdx] IN
         /\ installLog' = Append(installLog, [package |-> pkg.name, ok |-> ok])
         /\ importable' = importable \cup gained
    /\ IF pkgIdx < Len(installerPackages) THEN pkgIdx' = pkgIdx + 1 /\ Goto("i_install")
       ELSE pkgIdx' = 1 /\ Goto("i_verify")
    /\ UNCHANGED <<resolves, importable0, serverFileExists, launcherVars, mainVars, candIdx,
                   pythonPath, probeLog, versionLog, checkLog, instVars, supVars, sigVars,
                   pureVars, ioVars, testerVars>>

\* installRequiredPackages: `await this.installPackage(pkg)` settles
InstallerInstallDone(ok, gained) ==
    /\ Running /\ wpc = "i_install"
    /\ LET pkg == installerPackages[pkgIdx] IN
         /\ installLog' = Append(installLog, [package |-> pkg.name, ok |-> ok])
         /\ importable' = importable \cup gained
    /\ IF ~ok THEN pkgIdx' = pkgIdx /\ Exit(1)
       ELSE IF pkgIdx < Len(installerPackages) THEN pkgIdx' = pkgIdx + 1 /\ Goto("i_install")
       ELSE pkgIdx' = 1 /\ Goto("i_verify")
    /\ UNCHANGED <<resolves, importable0, serverFileExists, launcherVars, mainVars, candIdx,
                   pythonPath, probeLog, versionLog, checkLog, instVars, supVars, sigVars,
                   pureVars, ioVars, testerVars>>

InstallerVerifyDoneStopsAfterFirst ==
    /\ Running /\ wpc = "i_verify"
    /\ LET packageName == installerPackages[pkgIdx].name
           ok == ImportName(packageName) \in importable
       IN /\ checkLog' = Append(checkLog, [package |-> packageName, ok |-> ok])
          /\ pkgIdx' = pkgIdx
          /\ IF ~ok THEN Exit(1) ELSE Exit(0)
    /\ UNCHANGED <<envVars, launcherVars, mainVars, candIdx, pythonPath, probeLog, versionLog,
                   installLog, instVars, supVars, sigVars, pureVars, ioVars, testerVars>>

\* verifyInstallation: `await this.verifyPackage(pkg.name)` settles; after the
\* last one install() returns true and main calls process.exit(0)
InstallerVerifyDone ==
    /\ Running /\ wpc = "i_verify"
    /\ LET packageName == installerPackages[pkgIdx].name
           ok == ImportName(packageName) \in importable
       IN /\ checkLog' = Append(checkLog, [package |-> packageName, ok |-> ok])
          /\ IF ~ok THEN pkgIdx' = pkgIdx /\ Exit(1)
             ELSE IF pkgIdx < Len(installerPackages)
               THEN pkgIdx' = pkgIdx + 1 /\ Goto("i_verify")
             ELSE pkgIdx' = pkgIdx /\ Exit(0)
    /\ UNCHANGED <<envVars, launcherVars, mainVars, candIdx, pythonPath, probeLog, versionLog,
                   installLog, instVars, supVars, sigVars, pureVars, ioVars, testerVars>>

\* --------------------------------------------------- the wrapper: supervise
\* ChildProcess.kill() reaches the process while its handle is open, that is
\* until the wrapper has observed its exit
HandleOpen == child = "running" \/ (child = "exited" /\ ~closeObserved)

\* 'close' is emitted after the child has ended and its stdio streams have
\* been read to the end
StreamsEnded == child = "exited" /\ \A ch \in Channels : pipe[ch] = <<>>

OnErrorExitsZero ==
    /\ Running /\ wpc = "serving" /\ errorPending
    /\ errorPending' = FALSE
    /\ Exit(0)
    /\ UNCHANGED <<envVars, launcherVars, mainVars, verifVars, instVars, child, childStatus,
                   childExitAt, childExitAfterKill, spawnCount, killed, sentSignals, handlers,
                   closeObserved, closeCode, stdinOpen, timerPending, timersArmed, elapsed,
                   sigVars, pureVars, ioVars, testerVars>>

\* serverProcess.on('error'): the spawn failed
OnError ==
    /\ Running /\ wpc = "serving" /\ errorPending
    /\ errorPending' = FALSE
    /\ Exit(1)
    /\ UNCHANGED <<envVars, launcherVars, mainVars, verifVars, instVars, child, childStatus, childExitAt,
                   childExitAfterKill, spawnCount, killed, sentSignals, handlers, closeObserved, closeCode,
                   stdinOpen, timerPending, timersArmed, elapsed, sigVars, pureVars, ioVars, testerVars>>

OnCloseExitsOne ==
    /\ Running /\ wpc = "serving" /\ StreamsEnded /\ ~closeObserved
    /\ closeObserved' = TRUE
    /\ closeCode' = childStatus
    /\ IF childStatus # 0 THEN Exit(1) ELSE Goto("serving")
    /\ UNCHANGED <<envVars, launcherVars, mainVars, verifVars, instVars, child, childStatus,
                   childExitAt, childExitAfterKill, spawnCount, killed, sentSignals, handlers,
                   errorPending, stdinOpen, timerPending, timersArmed, elapsed, sigVars,
                   pureVars, ioVars, testerVars>>

OnCloseRestarts ==
    /\ Running /\ wpc = "serving" /\ StreamsEnded /\ ~closeObserved
    /\ closeCode' = childStatus
    /\ IF childStatus # 0 /\ spawnCount < 2
         THEN /\ child' = "running" /\ spawnCount' = spawnCount + 1
              /\ closeObserved' = FALSE /\ Goto("serving")
         ELSE /\ UNCHANGED <<child, spawnCount>> /\ closeObserved' = TRUE
              /\ IF childStatus # 0 THEN Exit(childStatus) ELSE Goto("serving")
    /\ UNCHANGED <<envVars, launcherVars, mainVars, verifVars, instVars, childStatus,
                   childExitAt, childExitAfterKill, killed, sentSignals, handlers,
                   errorPending, stdinOpen, timerPending, timersArmed, elapsed, sigVars,
                   pureVars, ioVars, testerVars>>

OnCloseAlwaysExits ==
    /\ Running /\ wpc = "serving" /\ StreamsEnded /\ ~closeObserved
    /\ closeObserved' = TRUE
    /\ closeCode' = childStatus
    /\ Exit(childStatus)
    /\ UNCHANGED <<envVars, launcherVars, mainVars, verifVars, instVars, child, childStatus,
                   childExitAt, childExitAfterKill, spawnCount, killed, sentSignals, handlers,
                   errorPending, stdinOpen, timerPending, timersArmed, elapsed, sigVars,
                   pureVars, ioVars, testerVars>>

\* serverProcess.on('close')
OnClose ==
    /\ Running /\ wpc = "serving" /\ StreamsEnded /\ ~closeObserved
    /\ closeObserved' = TRUE
    /\ closeCode' = childStatus
    /\ IF childStatus # 0 THEN Exit(childStatus) ELSE Goto("serving")
    /\ UNCHANGED <<envVars, launcherVars, mainVars, verifVars, instVars, child, childStatus, childExitAt,
                   childExitAfterKill, spawnCount, killed, sentSignals, handlers, errorPending, stdinOpen,
                   timerPending, timersArmed, elapsed, sigVars, pureVars, ioVars, testerVars>>

ShutdownKillsAtOnce(signal) ==
    /\ Running /\ handlers /\ ~errorPending /\ signal \in sigPending
    /\ sigPending' = sigPending \ {signal}
    /\ IF child # "none"
         THEN /\ sentSignals' = IF HandleOpen THEN sentSignals \o <<signal, "SIGKILL">>
                                              ELSE sentSignals
              /\ killed' = (killed \/ HandleOpen)
              /\ timersArmed' = timersArmed + 1
         ELSE UNCHANGED <<sentSignals, killed, timersArmed>>
    /\ timerPending' = FALSE
    /\ Exit(0)
    /\ UNCHANGED <<envVars, launcherVars, mainVars, verifVars, instVars, child, childStatus,
                   childExitAt, childExitAfterKill, spawnCount, handlers, closeObserved,
                   closeCode, errorPending, stdinOpen, elapsed, envSignals, pureVars, ioVars, testerVars>>

ShutdownSignalsClosedChild(signal) ==
    /\ Running /\ handlers /\ ~errorPending /\ signal \in sigPending
    /\ sigPending' = sigPending \ {signal}
    /\ IF child # "none"
         THEN /\ sentSignals' = Append(sentSignals, signal)
              /\ killed' = TRUE
              /\ timersArmed' = timersArmed + 1
         ELSE UNCHANGED <<sentSignals, killed, timersArmed>>
    /\ timerPending' = FALSE
    /\ Exit(0)
    /\ UNCHANGED <<envVars, launcherVars, mainVars, verifVars, instVars, child, childStatus,
                   childExitAt, childExitAfterKill, spawnCount, handlers, closeObserved,
                   closeCode, errorPending, stdinOpen, elapsed, envSignals, pureVars, ioVars, testerVars>>

ShutdownStaysAlive(signal) ==
    /\ Running /\ handlers /\ ~errorPending /\ signal \in sigPending
    /\ sigPending' = sigPending \ {signal}
    /\ IF child # "none"
         THEN /\ sentSignals' = IF HandleOpen THEN Append(sentSignals, signal) ELSE sentSignals
              /\ killed' = (killed \/ HandleOpen)
              /\ timersArmed' = timersArmed + 1
              /\ timerPending' = TRUE
         ELSE UNCHANGED <<sentSignals, killed, timersArmed, timerPending>>
    /\ UNCHANGED procVars
    /\ UNCHANGED <<envVars, launcherVars, mainVars, verifVars, instVars, child, childStatus,
                   childExitAt, childExitAfterKill, spawnCount, handlers, closeObserved,
                   closeCode, errorPending, stdinOpen, elapsed, envSignals, pureVars, ioVars, testerVars>>

ShutdownPropagatesStatus(signal) ==
    /\ Running /\ handlers /\ ~errorPending /\ signal \in sigPending
    /\ sigPending' = sigPending \ {signal}
    /\ IF child # "none"
         THEN /\ sentSignals' = IF HandleOpen THEN Append(sentSignals, signal) ELSE sentSignals
              /\ killed' = (killed \/ HandleOpen)
              /\ timersArmed' = timersArmed + 1
         ELSE UNCHANGED <<sentSignals, killed, timersArmed>>
    /\ timerPending' = FALSE
    /\ Exit(IF child = "exited" THEN childStatus ELSE 0)
    /\ UNCHANGED <<envVars, launcherVars, mainVars, verifVars, instVars, child, childStatus,
                   childExitAt, childExitAfterKill, spawnCount, handlers, closeObserved,
                   closeCode, errorPending, stdinOpen, elapsed, envSignals, pureVars, ioVars,
                   testerVars>>

\* shutdown(signal), the handler of SIGINT and SIGTERM: kill, setTimeout,
\* process.exit(0). The timer it arms dies with the process in the same turn.
Shutdown(signal) ==
    /\ Running /\ handlers /\ ~errorPending /\ signal \in sigPending
    /\ sigPending' = sigPending \ {signal}
    /\ IF child # "none"
         THEN /\ sentSignals' = IF HandleOpen THEN Append(sentSignals, signal) ELSE sentSignals
              /\ killed' = (killed \/ HandleOpen)
              /\ timersArmed' = timersArmed + 1
         ELSE UNCHANGED <<sentSignals, killed, timersArmed>>
    /\ timerPending' = FALSE
    /\ Exit(0)
    /\ UNCHANGED <<envVars, launcherVars, mainVars, verifVars, instVars, child, childStatus, childExitAt,
                   childExitAfterKill, spawnCount, handlers, closeObserved, closeCode, errorPending, stdinOpen,
                   elapsed, envSignals, pureVars, ioVars, testerVars>>

\* the callback given to setTimeout: it runs only in a live process
ForceKill ==
    /\ Running /\ timerPending /\ elapsed >= GRACE_MS
    /\ timerPending' = FALSE
    /\ IF ~killed /\ HandleOpen
         THEN sentSignals' = Append(sentSignals, "SIGKILL") /\ killed' = TRUE
         ELSE UNCHANGED <<sentSignals, killed>>
    /\ UNCHANGED <<envVars, launcherVars, procVars, mainVars, verifVars, instVars, child, childStatus,
                   childExitAt, childExitAfterKill, spawnCount, handlers, closeObserved, closeCode, errorPending,
                   stdinOpen, timersArmed, elapsed, sigVars, pureVars, ioVars, testerVars>>

\* serverProcess.stdout.on('data') / serverProcess.stderr.on('data'):
\* process.stdout.write(data) / process.stderr.write(data)
OnData(ch) ==
    /\ Running /\ wpc = "serving" /\ pipe[ch] # <<>>
    /\ pipe' = [pipe EXCEPT ![ch] = Tail(@)]
    /\ written' = [written EXCEPT ![ch] = Append(@, Head(pipe[ch]))]
    /\ UNCHANGED <<envVars, launcherVars, procVars, mainVars, verifVars, instVars, supVars,
                   sigVars, pureVars, emitted, logged, testerVars>>

\* SIGINT or SIGTERM reaches the wrapper while no handler is installed: the
\* default disposition ends the process
KilledBySignal(signal) ==
    /\ Running /\ ~handlers /\ signal \in sigPending
    /\ sigPending' = sigPending \ {signal}
    /\ wrapper' = "killed"
    /\ UNCHANGED <<envVars, launcherVars, wrapperExit, wpc, inFlight, mainVars, verifVars, instVars, supVars,
                   envSignals, pureVars, ioVars, testerVars>>

\* process.stdin ends
StdinEnd ==
    /\ Running /\ stdinOpen
    /\ stdinOpen' = FALSE
    /\ UNCHANGED <<envVars, launcherVars, procVars, mainVars, verifVars, instVars, child, childStatus,
                   childExitAt, childExitAfterKill, spawnCount, killed, sentSignals, handlers, closeObserved,
                   closeCode, errorPending, timerPending, timersArmed, elapsed, sigVars,
                   pureVars, ioVars, testerVars>>

\* nothing keeps the event loop alive: main has returned, or the child has
\* closed with code 0 and stdin has ended. Node exits with code 0.
LoopEmpty ==
    /\ Running
    /\ \/ wpc = "returned"
       \/ wpc = "serving" /\ closeObserved /\ ~stdinOpen /\ ~errorPending
    /\ Exit(0)
    /\ UNCHANGED <<envVars, launcherVars, mainVars, verifVars, instVars, supVars, sigVars, pureVars, ioVars, testerVars>>

\* ----------------------------------------------------------- the Python child
\* the child ends, by itself or by a signal, with status `status`
ChildExit(status) ==
    /\ child = "running"
    /\ child' = "exited"
    /\ childStatus' = status
    /\ childExitAt' = elapsed
    /\ childExitAfterKill' = (sentSignals # <<>>)
    /\ UNCHANGED <<envVars, launcherVars, procVars, mainVars, verifVars, instVars, spawnCount, killed,
                   sentSignals, handlers, closeObserved, closeCode, errorPending, stdinOpen,
                   timerPending, timersArmed, elapsed, sigVars, pureVars, ioVars, testerVars>>

\* the child writes a chunk on one of its output channels
ChildEmit(ch) ==
    /\ child = "running"
    /\ Len(emitted[ch]) < MaxChunks
    /\ LET chunk == [channel |-> ch, n |-> Len(emitted[ch]) + 1] IN
         /\ emitted' = [emitted EXCEPT ![ch] = Append(@, chunk)]
         /\ pipe' = [pipe EXCEPT ![ch] = Append(@, chunk)]
    /\ UNCHANGED <<envVars, launcherVars, procVars, mainVars, verifVars, instVars, supVars,
                   sigVars, pureVars, written, logged, testerVars>>

\* time passes after shutdown() ran; the stopwatch is read while the child runs
Tick ==
    /\ timersArmed > 0 /\ child = "running"
    /\ elapsed + TickMs <= MaxElapsed
    /\ elapsed' = elapsed + TickMs
    /\ UNCHANGED <<envVars, launcherVars, procVars, mainVars, verifVars, instVars, child, childStatus,
                   childExitAt, childExitAfterKill, spawnCount, killed, sentSignals, handlers, closeObserved,
                   closeCode, errorPending, stdinOpen, timerPending, timersArmed, sigVars,
                   pureVars, ioVars, testerVars>>


\* ------------------------------------------------------------- the launcher
\* spawn('node', [srcPath], ...): the wrapper is started with no argument
LauncherChildArgs == {}

LauncherExit(code) == launcher' = "exited" /\ launcherExit' = ProcessExitCode(code)

\* the wrapper's handle is open until the launcher has observed its exit
WrapperHandleOpen == wrapper = "running" \/ (wrapper \in {"exited", "killed"} /\ ~launcherCloseSeen)

\* the script body: spawn the wrapper, register the handlers
LauncherStart ==
    /\ launcher = "start"
    /\ launcher' = "running"
    /\ \E spawned \in BOOLEAN :
         /\ wrapper' = IF spawned THEN "running" ELSE "notstarted"
         /\ launcherError' = ~spawned
    /\ args' = LauncherChildArgs
    /\ UNCHANGED <<envVars, entry, argv, launcherExit, launcherCloseSeen, launcherCloseCode,
                   launcherSent, launcherSig, wrapperExit, wpc, inFlight, mode, verifVars, instVars, supVars,
                   sigVars, pureVars, ioVars, testerVars>>

\* child.on('error')
LauncherOnError ==
    /\ launcher = "running" /\ launcherError
    /\ launcherError' = FALSE
    /\ LauncherExit(1)
    /\ UNCHANGED <<envVars, entry, argv, launcherCloseSeen, launcherCloseCode, launcherSent,
                   launcherSig, procVars, mainVars, verifVars, instVars, supVars, sigVars, pureVars, ioVars, testerVars>>

\* child.on('close'): code is null when the wrapper was ended by a signal
LauncherOnClose ==
    /\ launcher = "running" /\ wrapper \in {"exited", "killed"} /\ ~launcherCloseSeen
    /\ LET code == IF wrapper = "killed" THEN NullCode ELSE wrapperExit IN
         /\ launcherCloseSeen' = TRUE
         /\ launcherCloseCode' = code
         /\ IF code # 0 THEN LauncherExit(code) ELSE UNCHANGED <<launcher, launcherExit>>
    /\ UNCHANGED <<envVars, entry, argv, launcherError, launcherSent, launcherSig, procVars,
                   mainVars, verifVars, instVars, supVars, sigVars, pureVars, ioVars, testerVars>>

LauncherOnSignalSendsTerm(signal) ==
    /\ launcher = "running" /\ ~launcherError /\ signal \in launcherSig
    /\ launcherSig' = launcherSig \ {signal}
    /\ launcherSent' = IF WrapperHandleOpen THEN Append(launcherSent, "SIGTERM") ELSE launcherSent
    /\ sigPending' = IF wrapper = "running" THEN sigPending \cup {"SIGTERM"} ELSE sigPending
    /\ UNCHANGED <<envVars, entry, argv, launcher, launcherExit, launcherError,
                   launcherCloseSeen, launcherCloseCode, procVars, mainVars, verifVars, instVars,
                   supVars, envSignals, pureVars, ioVars, testerVars>>

LauncherOnSignalExits(signal) ==
    /\ launcher = "running" /\ ~launcherError /\ signal \in launcherSig
    /\ launcherSig' = launcherSig \ {signal}
    /\ launcherSent' = IF WrapperHandleOpen THEN Append(launcherSent, signal) ELSE launcherSent
    /\ sigPending' = IF wrapper = "running" THEN sigPending \cup {signal} ELSE sigPending
    /\ LauncherExit(0)
    /\ UNCHANGED <<envVars, entry, argv, launcherError,
                   launcherCloseSeen, launcherCloseCode, procVars, mainVars, verifVars, instVars,
                   supVars, envSignals, pureVars, ioVars, testerVars>>

\* process.on('SIGINT') / process.on('SIGTERM'): child.kill(signal)
LauncherOnSignal(signal) ==
    /\ launcher = "running" /\ ~launcherError /\ signal \in launcherSig
    /\ launcherSig' = launcherSig \ {signal}
    /\ launcherSent' = IF WrapperHandleOpen THEN Append(launcherSent, signal) ELSE launcherSent
    /\ sigPending' = IF wrapper = "running" THEN sigPending \cup {signal} ELSE sigPending
    /\ UNCHANGED <<envVars, entry, argv, launcher, launcherExit, launcherError,
                   launcherCloseSeen, launcherCloseCode, procVars, mainVars, verifVars, instVars,
                   supVars, envSignals, pureVars, ioVars, testerVars>>

\* the wrapper has closed with code 0: nothing keeps the launcher's loop alive
LauncherLoopEmpty ==
    /\ launcher = "running" /\ launcherCloseSeen
    /\ LauncherExit(0)
    /\ UNCHANGED <<envVars, entry, argv, launcherError, launcherCloseSeen, launcherCloseCode,
                   launcherSent, launcherSig, procVars, mainVars, verifVars, instVars, supVars, sigVars,
                   pureVars, ioVars, testerVars>>

\* -------------------------------------------------------------- environment
\* an external SIGINT or SIGTERM is delivered to the wrapper process
SignalWrapper(signal) ==
    /\ envSignals < MaxSignals
    /\ envSignals' = envSignals + 1
    /\ Running
    /\ sigPending' = sigPending \cup {signal}
    /\ UNCHANGED <<envVars, launcherVars, procVars, mainVars, verifVars, instVars, supVars, pureVars, ioVars, testerVars>>

\* an external SIGINT or SIGTERM is delivered to the launcher process
SignalLauncher(signal) ==
    /\ envSignals < MaxSignals
    /\ envSignals' = envSignals + 1
    /\ launcher = "running"
    /\ launcherSig' = launcherSig \cup {signal}
    /\ UNCHANGED <<envVars, entry, argv, launcher, launcherExit, launcherError,
                   launcherCloseSeen, launcherCloseCode, launcherSent, procVars, mainVars,
                   verifVars, instVars, supVars, sigPending, pureVars, ioVars, testerVars>>

\* ------------------------------------------------------------ specification
\* the wrapper, the Python child and the signals sent to the wrapper
NextServe ==
    \/ Main
    \/ WhichDone
    \/ \E out \in VersionOutcomes : VersionDone(out)
    \/ CheckDone
    \/ \E ok \in BOOLEAN, gained \in SUBSET (Remaining \ importable) : InstallDone(ok, gained)
    \/ OnError
    \/ OnClose
    \/ \E signal \in Signals : Shutdown(signal)
    \/ \E signal \in Signals : KilledBySignal(signal)
    \/ StdinEnd
    \/ LoopEmpty
    \/ \E status \in ChildCodes : ChildExit(status)
    \/ Tick
    \/ \E signal \in Signals : SignalWrapper(signal)

NextInstaller ==
    \/ InstallerWhichDone
    \/ \E ok \in BOOLEAN : InstallerUpgradeDone(ok)
    \/ \E ok \in BOOLEAN, gained \in SUBSET (ImportNames \ importable) :
         InstallerInstallDone(ok, gained)
    \/ InstallerVerifyDone

Next == NextServe \/ NextInstaller

Spec == Init /\ [][Next]_vars

NextBin ==
    \/ NextServe
    \/ LauncherStart
    \/ LauncherOnError
    \/ LauncherOnClose
    \/ \E signal \in Signals : LauncherOnSignal(signal)
    \/ LauncherLoopEmpty
    \/ \E signal \in Signals : SignalLauncher(signal)

SpecBin == InitBin /\ [][NextBin]_vars

\* node src/index.js in an environment that passes verification, with the
\* child writing on its output channels
InitStream ==
    /\ resolves \in {r \in [Commands -> BOOLEAN] : r[pythonCommands[1]]}
    /\ importable = ImportNames
    /\ importable0 = importable
    /\ serverFileExists = TRUE
    /\ entry = "direct"
    /\ argv = {}
    /\ launcher = "absent"
    /\ wrapper = "running"
    /\ args = argv
    /\ InitProgram
    /\ tester = "absent"
    /\ tpc = "none"
    /\ verNums = <<0, 0, 0>>
    /\ versionArg = <<>>
    /\ versionValid = "unset"

NextStream ==
    \/ Main
    \/ WhichDone
    \/ \E out \in VersionOutcomes : VersionDone(out)
    \/ CheckDone
    \/ OnError
    \/ OnClose
    \/ \E ch \in Channels : OnData(ch)
    \/ \E signal \in Signals : Shutdown(signal)
    \/ \E signal \in Signals : KilledBySignal(signal)
    \/ StdinEnd
    \/ LoopEmpty
    \/ \E status \in ChildCodes : ChildExit(status)
    \/ \E ch \in Channels : ChildEmit(ch)
    \/ Tick
    \/ \E signal \in Signals : SignalWrapper(signal)

SpecStream == InitStream /\ [][NextStream]_vars

\* ------------------------------------------------------ the ConnectionTester
\* testPackageAvailability: requiredPackages
testerPackages == <<"vnstock", "mcp", "pandas">>

\* runTests: the names of `tests`, in list order
tests ==
    << "Python Installation", "Python Version Compatibility", "Required Package Availability",
       "Network Connectivity", "Market Data Access", "MCP Server File Integrity" >>

\* what fs.readFileSync finds in the server file
FileContents == {"ok", "corrupted", "noentry"}

appVars == <<launcherVars, procVars, mainVars, verifVars, instVars, supVars, sigVars, pureVars, ioVars>>

TesterRunning == tester = "running"

PASS(name) == [name |-> name, status |-> "PASS", message |-> <<"Test completed successfully">>]

FAIL(name, message) == [name |-> name, status |-> "FAIL", message |-> message]

allTestsPassedSome(results) == \E i \in DOMAIN results : results[i].status = "PASS"

\* allTestsPassed of a list of results
allTestsPassed(results) == \A i \in DOMAIN results : results[i].status = "PASS"

TestPythonInstallationDoneStopsAtFirst ==
    /\ TesterRunning /\ tpc = "which"
    /\ LET command == pythonCommands[testerIdx] IN
         /\ testerProbes' = Append(testerProbes, command)
         /\ IF resolves[command]
              THEN /\ testerPath' = command
                   /\ testResults' = Append(testResults, PASS("Python Installation"))
                   /\ tpc' = "version" /\ testerIdx' = 1
              ELSE /\ testerPath' = testerPath
                   /\ testResults' = testResults \o
                        << FAIL("Python Installation",
                                <<"Python executable not found in system PATH">>),
                           FAIL("Python Version Compatibility",
                                <<"Python path not available for version check">>) >>
                   /\ tpc' = "packages" /\ testerIdx' = 1
    /\ UNCHANGED <<envVars, appVars, tester, testerExit, versionQueries, importLog, missingPackages>>

\* testPythonInstallation: `await which(command)` settles. When the last
\* candidate fails, testPythonVersion throws at once for want of a path, and
\* the first import check of testPackageAvailability is started.
TestPythonInstallationDone ==
    /\ TesterRunning /\ tpc = "which"
    /\ LET command == pythonCommands[testerIdx] IN
         /\ testerProbes' = Append(testerProbes, command)
         /\ IF resolves[command]
              THEN /\ testerPath' = command
                   /\ testResults' = Append(testResults, PASS("Python Installation"))
                   /\ tpc' = "version" /\ testerIdx' = 1
              ELSE /\ testerPath' = testerPath
                   /\ IF testerIdx < Len(pythonCommands)
                        THEN /\ testerIdx' = testerIdx + 1
                             /\ UNCHANGED <<tpc, testResults>>
                        ELSE /\ testResults' = testResults \o
                                  << FAIL("Python Installation",
                                          <<"Python executable not found in system PATH">>),
                                     FAIL("Python Version Compatibility",
                                          <<"Python path not available for version check">>) >>
                             /\ tpc' = "packages" /\ testerIdx' = 1
    /\ UNCHANGED <<envVars, appVars, tester, testerExit, versionQueries, importLog, missingPackages>>

\* testPythonVersion: the exec of `<python> --version` settles
TestPythonVersionDone(out) ==
    /\ TesterRunning /\ tpc = "version"
    /\ testResults' = Append(testResults,
         IF out.status = "error"
           THEN FAIL("Python Version Compatibility", <<"Could not determine Python version">>)
         ELSE IF out.status = "nomatch"
           THEN FAIL("Python Version Compatibility", <<"Invalid Python version format">>)
         ELSE IF ~testPythonVersionAccepts(out.text)
           THEN FAIL("Python Version Compatibility", <<"version 3.8+ required">>)
         ELSE PASS("Python Version Compatibility"))
    /\ versionQueries' = Append(versionQueries, testerPath)
    /\ tpc' = "packages" /\ testerIdx' = 1
    /\ UNCHANGED <<envVars, appVars, tester, testerExit, testerPath, testerProbes, importLog,
                   missingPackages>>

TestPackageAvailabilityStopsAtFirst ==
    /\ TesterRunning /\ tpc = "packages"
    /\ LET packageName == testerPackages[testerIdx]
           ok == testerPath # "null" /\ packageName \in importable
           missing == IF ok THEN missingPackages ELSE Append(missingPackages, packageName)
       IN /\ importLog' = Append(importLog, [package |-> packageName, ok |-> ok])
          /\ missingPackages' = missing
          /\ IF ok /\ testerIdx < Len(testerPackages)
               THEN testerIdx' = testerIdx + 1 /\ UNCHANGED <<tpc, testResults>>
               ELSE /\ testResults' = Append(testResults,
                         IF missing # <<>>
                           THEN FAIL("Required Package Availability",
                                     <<"Missing required packages">> \o missing)
                           ELSE PASS("Required Package Availability"))
                    /\ tpc' = "network" /\ testerIdx' = 1
    /\ UNCHANGED <<envVars, appVars, tester, testerExit, testerPath, testerProbes, versionQueries>>

\* testPackageAvailability: `await this.checkPackageImport(packageName)`
\* settles; after the last package the collected names decide the result
TestPackageAvailabilityDone ==
    /\ TesterRunning /\ tpc = "packages"
    /\ LET packageName == testerPackages[testerIdx]
           ok == testerPath # "null" /\ packageName \in importable
           missing == IF ok THEN missingPackages ELSE Append(missingPackages, packageName)
       IN /\ importLog' = Append(importLog, [package |-> packageName, ok |-> ok])
          /\ missingPackages' = missing
          /\ IF testerIdx < Len(testerPackages)
               THEN testerIdx' = testerIdx + 1 /\ UNCHANGED <<tpc, testResults>>
               ELSE /\ testResults' = Append(testResults,
                         IF missing # <<>>
                           THEN FAIL("Required Package Availability",
                                     <<"Missing required packages">> \o missing)
                           ELSE PASS("Required Package Availability"))
                    /\ tpc' = "network" /\ testerIdx' = 1
    /\ UNCHANGED <<envVars, appVars, tester, testerExit, testerPath, testerProbes, versionQueries>>

TestNetworkConnectivityDoneAborts(ok) ==
    /\ TesterRunning /\ tpc = "network"
    /\ testResults' = Append(testResults,
         IF ok THEN PASS("Network Connectivity")
               ELSE FAIL("Network Connectivity", <<"Network connectivity test failed">>))
    /\ IF ok THEN tpc' = "market" /\ UNCHANGED <<tester, testerExit>>
             ELSE tpc' = "done" /\ tester' = "exited" /\ testerExit' = 1
    /\ UNCHANGED <<envVars, appVars, testerIdx, testerPath, testerProbes, versionQueries,
                   importLog, missingPackages>>

\* testNetworkConnectivity: the ping settles
TestNetworkConnectivityDone(ok) ==
    /\ TesterRunning /\ tpc = "network"
    /\ testResults' = Append(testResults,
         IF ok THEN PASS("Network Connectivity")
               ELSE FAIL("Network Connectivity", <<"Network connectivity test failed">>))
    /\ tpc' = "market"
    /\ UNCHANGED <<envVars, appVars, tester, testerExit, testerIdx, testerPath, testerProbes, versionQueries,
                   importLog, missingPackages>>

\* testMarketDataAccess: the exec of the vnstock script settles. testServerFiles
\* is synchronous, so it, displayResults and process.exit(success ? 0 : 1) of
\* main follow in the same turn.
TestMarketDataAccessDone(ok, content) ==
    /\ TesterRunning /\ tpc = "market"
    /\ ok => (testerPath # "null" /\ "vnstock" \in importable)
    /\ LET market == IF ok THEN PASS("Market Data Access")
                     ELSE FAIL("Market Data Access", <<"Unable to access Vietnamese market data">>)
           files == IF ~serverFileExists
                      THEN FAIL("MCP Server File Integrity", <<"MCP server Python file not found">>)
                    ELSE IF content = "corrupted"
                      THEN FAIL("MCP Server File Integrity", <<"MCP server file appears corrupted">>)
                    ELSE IF content = "noentry"
                      THEN FAIL("MCP Server File Integrity", <<"MCP server entry point not found">>)
                    ELSE PASS("MCP Server File Integrity")
           results == testResults \o <<market, files>>
       IN /\ testResults' = results
          /\ tpc' = "done"
          /\ tester' = "exited"
          /\ testerExit' = ProcessExitCode(IF allTestsPassed(results) THEN 0 ELSE 1)
    /\ UNCHANGED <<envVars, appVars, testerIdx, testerPath, testerProbes, versionQueries, importLog,
                   missingPackages>>

\* node src/test-connection.js
InitTester ==
    /\ resolves \in [Commands -> BOOLEAN]
    /\ importable \in {i \in SUBSET ImportNames : "asyncio" \in i}
    /\ importable0 = importable
    /\ serverFileExists \in BOOLEAN
    /\ entry = "direct"
    /\ argv = {}
    /\ launcher = "absent"
    /\ wrapper = "notstarted"
    /\ args = {}
    /\ InitProgram
    /\ tester = "running"
    /\ tpc = "which"
    /\ verNums = <<0, 0, 0>>
    /\ versionArg = <<>>
    /\ versionValid = "unset"

NextTester ==
    \/ TestPythonInstallationDone
    \/ \E out \in VersionOutcomes : TestPythonVersionDone(out)
    \/ TestPackageAvailabilityDone
    \/ \E ok \in BOOLEAN : TestNetworkConnectivityDone(ok)
    \/ \E ok \in BOOLEAN, content \in FileContents : TestMarketDataAccessDone(ok, content)

SpecTester == InitTester /\ [][NextTester]_vars

\* the two programs that locate an interpreter without querying its version:
\* node src/index.js --install-deps, and node src/test-connection.js
InitLocate ==
    \/ Init /\ argv = {"--install-deps"}
    \/ InitTester

NextLocate ==
    \/ Main
    \/ NextInstaller
    \/ NextTester

SpecLocate == InitLocate /\ [][NextLocate]_vars

\* isValidPythonVersion applied to the text of a version triple
InitVersion ==
    /\ resolves = [c \in Commands |-> FALSE]
    /\ importable = ImportNames
    /\ importable0 = ImportNames
    /\ serverFileExists = FALSE
    /\ entry = "direct"
    /\ argv = {}
    /\ launcher = "absent"
    /\ wrapper = "notstarted"
    /\ args = {}
    /\ InitProgram
    /\ tester = "absent"
    /\ tpc = "none"
    /\ verNums \in (0..MaxMajor) \X (0..MaxMinor) \X (0..MaxPatch)
    /\ versionArg = VersionText(verNums)
    /\ versionValid = "unset"

ApplyIsValid ==
    /\ versionValid = "unset" /\ versionArg # <<>>
    /\ versionValid' = IF isValidPythonVersion(versionArg) THEN "true" ELSE "false"
    /\ UNCHANGED <<envVars, launcherVars, procVars, mainVars, verifVars, instVars, supVars, sigVars,
                   verNums, versionArg, ioVars, testerVars>>

SpecVersion == InitVersion /\ [][ApplyIsValid]_vars


\* ------------------------------------------------------------------ claims
Range(seq) == {seq[i] : i \in DOMAIN seq}

ForceKills == Cardinality({i \in DOMAIN sentSignals : sentSignals[i] = "SIGKILL"})

\* a SIGINT or SIGTERM of the wrapper has reached the child
Forwarded == \E i \in DOMAIN sentSignals : sentSignals[i] \in Signals

\* C1: once a termination signal has been forwarded to the running child and
\* the child does not exit, SIGKILL is sent to it exactly once, after the
\* 5000 ms grace period and not before.
C1_ForceKillAfterGrace ==
    /\ (Forwarded /\ child = "running" /\ elapsed > GRACE_MS) => ForceKills = 1
    /\ (elapsed < GRACE_MS) => ForceKills = 0
    /\ ForceKills <= 1

\* the escalation callback never becomes runnable: its process has exited
\* in the turn that armed the timer
ForceKillNeverRuns == ~ENABLED ForceKill

\* C2: the child is never orphaned: whenever the wrapper has exited after
\* spawning the child, the child has exited too.
C2_NeverOrphaned ==
    (wrapper = "exited" /\ child \in {"running", "exited"}) => child = "exited"

C4_ExitCodePropagated ==
    /\ (closeObserved /\ closeCode \notin {0, NullCode})
           => (wrapper = "exited" /\ wrapperExit = closeCode)
    /\ (launcherCloseSeen /\ launcherCloseCode \notin {0, NullCode})
           => (launcher = "exited" /\ launcherExit = launcherCloseCode)

C4_Witness ==
    /\ closeObserved /\ closeCode = 3 /\ wrapperExit = 3
    /\ launcherCloseSeen /\ launcherCloseCode = 3 /\ launcherExit = 3

\* C5: when the spawn of the child fails, the wrapper exits with code 1 and
\* shutdown never runs: no signal is sent to the child, no timer is armed.
C5_SpawnFailure ==
    child = "spawnfailed"
        => /\ sentSignals = <<>> /\ timersArmed = 0 /\ ~killed
           /\ wrapper # "killed"
           /\ (wrapper = "exited" \/ ~errorPending) => (wrapper = "exited" /\ wrapperExit = 1)

C5_Witness ==
    child = "spawnfailed" /\ wrapper = "exited" /\ wrapperExit = 1 /\ sigPending # {}

\* C6: when neither python3 nor python resolves, interpreter location fails
\* and the process exits with code 1; no version query, import check, install
\* or spawn is ever made on that run.
C6_NoInterpreter ==
    (mode \in {"serve", "test", "installdeps"} /\ \A c \in Commands : ~resolves[c])
        => /\ versionLog = <<>> /\ checkLog = <<>> /\ installLog = <<>>
           /\ upgraded = "none" /\ spawnCount = 0 /\ child = "none"
           /\ pythonPath = "null" /\ installerPath = "null"
           /\ (wrapper = "exited" => wrapperExit = 1)
           /\ (Len(probeLog) = Len(pythonCommands) => wrapper = "exited")

C6_Witness ==
    /\ mode = "serve" /\ \A c \in Commands : ~resolves[c]
    /\ probeLog = pythonCommands /\ wrapper = "exited" /\ wrapperExit = 1


\* the startup verifier runs on the start path and on the --test path
Verifying == mode \in {"serve", "test"}

\* checkPythonInstallation has returned
Located == Verifying /\ (wpc = "check" \/ checkLog # <<>>)

\* a version query that captured a token of major 3, minor >= 8
Compatible(out) ==
    /\ out.status = "ok"
    /\ \E t \in SampleVersions : out.text = VersionText(t) /\ t[1] = 3 /\ t[2] >= 8

\* a version query that captured a token of another version
Mismatch(out) == out.status = "ok" /\ ~Compatible(out)

IndexOf(command) == CHOOSE i \in DOMAIN pythonCommands : pythonCommands[i] = command

FirstResolving ==
    pythonCommands[CHOOSE i \in DOMAIN pythonCommands :
                      /\ resolves[pythonCommands[i]]
                      /\ \A j \in 1..(i - 1) : ~resolves[pythonCommands[j]]]

\* C7 as stated: candidates are probed in the order python3, python; the first
\* one that resolves is the interpreter returned, and no candidate is probed
\* after the first successful resolution.
C7_FirstResolvedReturned ==
    Verifying
        => /\ \A i \in DOMAIN probeLog : probeLog[i] = pythonCommands[i]
           /\ \A i \in DOMAIN probeLog : resolves[probeLog[i]] => i = Len(probeLog)
           /\ Located => pythonPath = FirstResolving

\* C7 as amended: candidates are probed in the order python3, python; the
\* interpreter returned is the first one that resolves and reports a compatible
\* version, no candidate is probed after it, and every candidate probed before
\* it failed to resolve or failed its version query or reported another version.
C7_FirstCompatibleReturned ==
    Verifying
        => /\ \A i \in DOMAIN probeLog : probeLog[i] = pythonCommands[i]
           /\ \A k \in DOMAIN versionLog :
                Compatible(versionLog[k].out)
                    => /\ k = Len(versionLog)
                       /\ versionLog[k].command = probeLog[Len(probeLog)]
                       /\ pythonPath = versionLog[k].command
           /\ Located => /\ versionLog # <<>>
                         /\ Compatible(versionLog[Len(versionLog)].out)
                         /\ resolves[pythonPath]
           /\ \A i \in 1..(Len(probeLog) - 1) :
                \/ ~resolves[probeLog[i]]
                \/ \E k \in DOMAIN versionLog :
                     versionLog[k].command = probeLog[i] /\ ~Compatible(versionLog[k].out)

C7_Witness ==
    /\ Located /\ probeLog = pythonCommands
    /\ resolves["python3"] /\ pythonPath = "python"

\* C8 as stated: a version mismatch is never fatal: a run in which an
\* interpreter reported an incompatible version proceeds to dependency
\* verification instead of failing.
C8_MismatchNeverFatal ==
    (Verifying /\ wrapper = "exited"
       /\ \E k \in DOMAIN versionLog : Mismatch(versionLog[k].out))
        => checkLog # <<>>

\* C8 as amended: a version mismatch on a candidate only moves the loop to the
\* next candidate; initialization reaches dependency verification only with a
\* candidate that reported a compatible version, and a mismatch on the last
\* candidate ends the run with exit code 1 before any package is checked.
C8_MismatchMovesOn ==
    Verifying
        => /\ \A k \in DOMAIN versionLog :
                (Mismatch(versionLog[k].out) /\ versionLog[k].command # pythonCommands[Len(pythonCommands)])
                    => \/ Len(probeLog) > IndexOf(versionLog[k].command)
                       \/ wpc = "which" /\ candIdx = IndexOf(versionLog[k].command) + 1
           /\ \A k \in DOMAIN versionLog :
                (Mismatch(versionLog[k].out) /\ versionLog[k].command = pythonCommands[Len(pythonCommands)])
                    => wrapper = "exited" /\ wrapperExit = 1 /\ checkLog = <<>> /\ spawnCount = 0
           /\ Located => Compatible(versionLog[Len(versionLog)].out)

C8_Witness ==
    /\ Located /\ Len(versionLog) = 2
    /\ Mismatch(versionLog[1].out) /\ Compatible(versionLog[2].out)

\* C9: for the text of major.minor.patch, isValidPythonVersion returns true
\* exactly when major = 3 and minor >= 8, whatever the patch; the test of
\* ConnectionTester.testPythonVersion accepts the same versions.
C9_ValidIffThreeEightUp ==
    versionValid # "unset"
        => /\ (versionValid = "true") <=> (verNums[1] = 3 /\ verNums[2] >= 8)
           /\ testPythonVersionAccepts(versionArg) <=> (verNums[1] = 3 /\ verNums[2] >= 8)

C9_Witness ==
    verNums = <<3, 11, 4>> /\ versionValid = "true"

Installed == {installLog[i].package : i \in DOMAIN installLog}

\* verifyPythonDependencies has been entered and has returned or thrown
VerifyEnded ==
    Verifying /\ checkLog # <<>> /\ wpc \notin {"check", "install"} /\ wrapper # "killed"

\* C10 as stated: of the N required packages, installation is attempted for
\* exactly the N-K that were not importable, whatever the installs' outcomes.
C10_InstallsExactlyMissing ==
    VerifyEnded => Installed = Packages \ importable0

\* C10 as amended: installation is attempted for exactly the packages whose
\* import check fails when the verifier reaches them, each once and in list
\* order, never for a package importable at the start (so for at most N-K, and
\* for none when K = N); an install that fails ends verification at once, so
\* the packages after it are neither checked nor installed.
C10_InstallsFailedChecks ==
    Verifying
        => /\ Installed \cap importable0 = {}
           /\ \A i, j \in DOMAIN installLog : installLog[i].package = installLog[j].package => i = j
           /\ Installed \cup (IF wpc = "install" /\ wrapper = "running"
                                THEN {requiredPackages[pkgIdx]} ELSE {})
                \cup (IF wrapper = "killed" /\ wpc = "install" THEN {requiredPackages[pkgIdx]} ELSE {})
                = {checkLog[i].package : i \in {k \in DOMAIN checkLog : ~checkLog[k].ok}}
           /\ \A i \in DOMAIN checkLog : checkLog[i].package = requiredPackages[i]
           /\ \A i \in DOMAIN installLog :
                ~installLog[i].ok
                    => /\ i = Len(installLog)
                       /\ wrapper = "exited" /\ wrapperExit = 1
                       /\ checkLog[Len(checkLog)].package = installLog[i].package
           /\ Packages \subseteq importable0 => installLog = <<>>
           /\ (VerifyEnded /\ \A i \in DOMAIN installLog : installLog[i].ok)
                => Len(checkLog) = Len(requiredPackages)

C10_Witness ==
    /\ VerifyEnded /\ importable0 \cap Packages = {}
    /\ Len(installLog) = 2 /\ installLog[1].ok /\ ~installLog[2].ok
    /\ Len(checkLog) = 2

\* C11: a required package that was not importable is re-checked after its
\* install, and the child is spawned only if the re-check passes: no run
\* spawns the child while a package it installed is still not importable.
C11_SpawnOnlyAfterRecheck ==
    (mode = "serve" /\ spawnCount > 0)
        => \A i \in DOMAIN installLog :
             /\ installLog[i].package \in importable
             /\ \E k \in DOMAIN checkLog :
                  checkLog[k].package = installLog[i].package /\ checkLog[k].ok

PackageIndex(packageName) ==
    CHOOSE i \in DOMAIN requiredPackages : requiredPackages[i] = packageName

\* C12 as stated: startup dependency verification examines every required
\* package even when an earlier one is missing and cannot be installed.
C12_ExaminesEveryPackage ==
    VerifyEnded => {checkLog[i].package : i \in DOMAIN checkLog} = Packages

\* C12 as amended: verification does not stop at a missing package as such (it
\* is handed to the installer, and after a successful install the next package
\* is examined); it stops at the first package whose install fails: the
\* packages after it are not examined, and the run fails once, with exit code 1
\* and the error of that one install.
C12_StopsAtFailedInstall ==
    Verifying
        => /\ \A i \in DOMAIN checkLog :
                ~checkLog[i].ok
                    => \/ \E j \in DOMAIN installLog : installLog[j].package = checkLog[i].package
                       \/ wpc = "install" /\ pkgIdx = i
           /\ \A j \in DOMAIN installLog :
                LET i == PackageIndex(installLog[j].package) IN
                  /\ (installLog[j].ok /\ i < Len(requiredPackages))
                        => (Len(checkLog) > i \/ (wpc = "check" /\ pkgIdx = i + 1))
                  /\ ~installLog[j].ok
                        => /\ Len(checkLog) = i
                           /\ pkgIdx = i
                           /\ wrapper = "exited" /\ wrapperExit = 1 /\ spawnCount = 0
           /\ Cardinality({j \in DOMAIN installLog : ~installLog[j].ok}) <= 1

C12_Witness ==
    /\ VerifyEnded /\ importable0 \cap Packages = {}
    /\ Len(checkLog) = 1 /\ Len(installLog) = 1 /\ ~installLog[1].ok
    /\ wrapperExit = 1

\* C13: in any run of the wrapper each package is passed to the package
\* manager at most once, and once an install invocation has failed the run
\* ends with exit code 1 and the child is never spawned.
C13_OneAttemptThenFail ==
    /\ \A i, j \in DOMAIN installLog :
         installLog[i].package = installLog[j].package => i = j
    /\ (\E i \in DOMAIN installLog : ~installLog[i].ok)
         => /\ ~installLog[Len(installLog)].ok
            /\ wrapper = "exited" /\ wrapperExit = 1
            /\ spawnCount = 0 /\ child = "none"

C13_Witness ==
    /\ mode = "serve" /\ wrapper = "exited" /\ wrapperExit = 1
    /\ installLog = <<[package |-> "mcp", ok |-> FALSE]>>

\* C14: the wrapper never restarts the child: spawn() is called at most once
\* in a run, whatever exit code, error or signal follows the spawn.
C14_SpawnedAtMostOnce ==
    /\ spawnCount <= 1
    /\ (child # "none") <=> (spawnCount = 1)
    /\ (closeObserved \/ child = "spawnfailed" \/ sentSignals # <<>>) => spawnCount = 1

C14_Witness ==
    /\ spawnCount = 1 /\ closeObserved /\ closeCode = 3
    /\ wrapper = "exited" /\ wrapperExit = 3

IsPrefix(s, t) == Len(s) <= Len(t) /\ \A i \in DOMAIN s : s[i] = t[i]

\* C15: every chunk the child emits on stdout (stderr) up to its exit is
\* written to the wrapper's stdout (stderr) exactly once, in order, never to
\* the other stream, and none is lost: once the child and the wrapper have
\* both ended, what was written is what was emitted.
C15_PassthroughFidelity ==
    \A ch \in Channels :
        /\ IsPrefix(written[ch], emitted[ch])
        /\ (child = "exited" /\ wrapper = "exited") => written[ch] = emitted[ch]

\* the handlers themselves keep order and channel: what has been written is
\* always a prefix of what was emitted on the same channel
PassthroughKeepsOrder ==
    \A ch \in Channels : IsPrefix(written[ch], emitted[ch])

\* a run that ends without shutdown() having run loses nothing
NoLossWithoutShutdown ==
    \A ch \in Channels :
        (child = "exited" /\ wrapper = "exited" /\ timersArmed = 0) => written[ch] = emitted[ch]

\* C16: the signal a parent sends to its child is the very signal the parent
\* received: each kill() of the wrapper and of the launcher sends the signal
\* whose handler is running, and nothing but SIGINT or SIGTERM is ever sent.
C16_SignalForwardedVerbatim ==
    /\ [](Range(sentSignals) \subseteq Signals /\ Range(launcherSent) \subseteq Signals)
    /\ [][/\ sentSignals' # sentSignals
               => \E signal \in sigPending :
                    /\ sentSignals' = Append(sentSignals, signal)
                    /\ sigPending' = sigPending \ {signal}
          /\ launcherSent' # launcherSent
               => \E signal \in launcherSig :
                    /\ launcherSent' = Append(launcherSent, signal)
                    /\ launcherSig' = launcherSig \ {signal}
                    /\ wrapper = "running" => signal \in sigPending']_vars

C16_Witness ==
    /\ envSignals = 1
    /\ launcherSent = <<"SIGINT">> /\ sentSignals = <<"SIGINT">>
    /\ child = "exited" /\ childExitAfterKill

\* C17: Exited is terminal: once the wrapper has observed the child's exit
\* (its 'close' handler has run, with any code), no signal is sent to that
\* child any more, whatever signals the wrapper receives afterwards.
C17_NoSignalAfterClose ==
    /\ [](closeObserved => (child = "exited" /\ ~HandleOpen))
    /\ [][closeObserved => sentSignals' = sentSignals]_vars

C17_Witness ==
    /\ closeObserved /\ closeCode = 0
    /\ timersArmed = 1 /\ sentSignals = <<>> /\ ~killed
    /\ wrapper = "exited" /\ wrapperExit = 0

\* C18: for any sequence of SIGINT/SIGTERM deliveries to the wrapper, the
\* child enters Terminating at most once: the graceful signal is forwarded to
\* it at most once and at most one escalation timer is ever armed.
C18_TerminatingAtMostOnce ==
    /\ Cardinality({i \in DOMAIN sentSignals : sentSignals[i] \in Signals}) <= 1
    /\ timersArmed <= 1
    /\ Len(sentSignals) <= timersArmed

C18_Witness ==
    /\ envSignals = 2 /\ sigPending # {}
    /\ Len(sentSignals) = 1 /\ timersArmed = 1
    /\ wrapper = "exited"

\* C19: when main runs with --help, -h, --test, --install-deps or --version
\* among its arguments the Python child is never spawned; the child is spawned
\* only on a run with none of them, after the environment has been verified.
C19_FlagRunsNeverSpawn ==
    /\ (args \cap Flags # {}) => (spawnCount = 0 /\ child = "none" /\ mode # "serve")
    /\ spawnCount > 0
         => /\ args \cap Flags = {} /\ mode = "serve"
            /\ pythonPath # "null" /\ resolves[pythonPath]
            /\ Len(checkLog) = Len(requiredPackages)

C19_Witness ==
    /\ "--test" \in args /\ mode = "test"
    /\ Len(checkLog) = Len(requiredPackages)
    /\ wrapper = "exited" /\ wrapperExit = 0

\* C20: the published executable run with --help selects the help path: the
\* flag reaches the wrapper's main, the Python server is never started and the
\* process tree ends on its own with exit code 0.
C20_BinHelpSelectsHelp ==
    (entry = "bin" /\ "--help" \in argv)
        => /\ wrapper # "notstarted" => args = argv
           /\ mode \in {"none", "help"}
           /\ spawnCount = 0 /\ child = "none"
           /\ launcher = "exited" => launcherExit = 0

\* initialize() returned true on this run
InitializeReturnedTrue ==
    /\ Located /\ Len(checkLog) = Len(requiredPackages)
    /\ \A i \in DOMAIN installLog : installLog[i].ok

\* DependencyInstaller.install() returned true on this run
InstallReturnedTrue ==
    /\ installerPath # "null"
    /\ Len(installLog) = Len(installerPackages) /\ \A i \in DOMAIN installLog : installLog[i].ok
    /\ Len(checkLog) = Len(installerPackages) /\ \A i \in DOMAIN checkLog : checkLog[i].ok

\* C21: exit codes of the flag-driven paths: --help and --version end with 0;
\* --test ends with 0 if initialization succeeded and with 1 otherwise;
\* --install-deps ends with 0 if the installer reported success and with 1
\* otherwise; an error that escapes main ends the process with 1.
C21_FlagExitCodes ==
    wrapper = "exited"
        => /\ mode \in {"help", "version"} => wrapperExit = 0
           /\ mode = "test" => wrapperExit = (IF InitializeReturnedTrue THEN 0 ELSE 1)
           /\ mode = "installdeps" => wrapperExit = (IF InstallReturnedTrue THEN 0 ELSE 1)
           /\ (mode = "installdeps" /\ probeLog = <<>>) => wrapperExit = 1

C21_Witness ==
    /\ wrapper = "exited" /\ mode = "test" /\ wrapperExit = 1
    /\ Located /\ installLog # <<>>

\* a command of the verifier is in flight
VerifierBusy == wrapper = "running" /\ wpc \in {"which", "version", "check", "install"}

\* C22: the verify/install phase and the run phase never overlap: the child
\* is spawned only after interpreter location, every package check and every
\* install of the run have completed, the installs successfully, and once the
\* child has been spawned no verification command is in flight or started.
C22_PhasesNeverOverlap ==
    /\ [](spawnCount > 0
            => /\ mode = "serve" /\ ~VerifierBusy /\ wpc \in {"serving", "done"}
               /\ InitializeReturnedTrue
               /\ \A i \in DOMAIN checkLog :
                    ~checkLog[i].ok
                        => \E j \in DOMAIN installLog :
                             installLog[j].package = checkLog[i].package /\ installLog[j].ok)
    /\ [][spawnCount > 0
            => UNCHANGED <<probeLog, versionLog, checkLog, installLog, pythonPath>>]_vars

C22_Witness ==
    /\ spawnCount = 1 /\ child = "running" /\ wpc = "serving"
    /\ Len(installLog) = 2 /\ Len(probeLog) = 2

\* a version query that errored or printed no major.minor.patch token
QueryFailed(out) == out.status \in {"error", "nomatch"}

\* C23 as stated: every failure of the verification phase other than a
\* candidate that does not resolve (a failed or unparsable version query, a
\* failed package-manager upgrade, a failed install, a failed post-install
\* import check) ends the process with status 1; none is swallowed.
C23_NoFailureSwallowed ==
    (\/ \E k \in DOMAIN versionLog : QueryFailed(versionLog[k].out)
     \/ upgraded = "failed"
     \/ \E i \in DOMAIN installLog : ~installLog[i].ok
     \/ mode = "installdeps" /\ \E i \in DOMAIN checkLog : ~checkLog[i].ok)
        => (wrapper = "exited" /\ wrapperExit = 1)

\* C23 as amended: a failed install, and in the DependencyInstaller a failed
\* post-install import check, end the process with status 1. A version query
\* that errors or is unparsable is swallowed like a resolution failure: the
\* next candidate is probed, and the process ends with status 1 only when the
\* last candidate has been tried. A failed package-manager upgrade is logged
\* and the installer goes on to install the packages.
C23_SurfacedAndSwallowed ==
    /\ (\E i \in DOMAIN installLog : ~installLog[i].ok)
           => (wrapper = "exited" /\ wrapperExit = 1)
    /\ (mode = "installdeps" /\ \E i \in DOMAIN checkLog : ~checkLog[i].ok)
           => (wrapper = "exited" /\ wrapperExit = 1)
    /\ \A k \in DOMAIN versionLog :
         QueryFailed(versionLog[k].out)
             => LET i == IndexOf(versionLog[k].command) IN
                  IF i < Len(pythonCommands)
                    THEN Len(probeLog) > i \/ (wpc = "which" /\ candIdx = i + 1)
                    ELSE wrapper = "exited" /\ wrapperExit = 1 /\ checkLog = <<>>
    /\ upgraded = "failed"
           => /\ mode = "installdeps"
              /\ installLog # <<>> \/ (wpc = "i_install" /\ pkgIdx = 1)

C23_Witness ==
    /\ upgraded = "failed" /\ wrapper = "exited" /\ wrapperExit = 0
    /\ Len(installLog) = Len(installerPackages)

\* C24: the install phase is fail-fast in the startup verifier and in the
\* DependencyInstaller: once an install has failed, no install is made for a
\* later package, no import check follows, and the phase reports failure.
C24_InstallFailFast ==
    /\ [](\A i \in DOMAIN installLog :
            ~installLog[i].ok
                => /\ i = Len(installLog)
                   /\ wrapper = "exited" /\ wrapperExit = 1
                   /\ mode = "installdeps" => (checkLog = <<>> /\ upgraded # "none")
                   /\ Verifying => checkLog[Len(checkLog)].package = installLog[i].package)
    /\ [][(\E i \in DOMAIN installLog : ~installLog[i].ok)
            => UNCHANGED <<installLog, checkLog, spawnCount>>]_vars

C24_Witness ==
    /\ mode = "installdeps" /\ wrapper = "exited"
    /\ Len(installLog) = 2 /\ installLog[1].ok /\ ~installLog[2].ok
    /\ checkLog = <<>>

\* the packages testPackageAvailability cannot import, in list order
NotImportable ==
    SelectSeq(testerPackages, LAMBDA p : testerPath = "null" \/ p \notin importable)

\* C25: testPackageAvailability checks all three required packages whatever
\* the earlier results, and fails with one error that lists exactly the
\* packages whose import failed, in list order; it passes iff none failed.
C25_ChecksAllReportsMissing ==
    /\ Len(importLog) <= Len(testerPackages)
    /\ \A i \in DOMAIN importLog : importLog[i].package = testerPackages[i]
    /\ \A i \in DOMAIN testResults :
         testResults[i].name = "Required Package Availability"
             => /\ Len(importLog) = Len(testerPackages)
                /\ \A j \in DOMAIN testResults : testResults[j].name = testResults[i].name => j = i
                /\ (testResults[i].status = "PASS") <=> (NotImportable = <<>>)
                /\ testResults[i].status = "FAIL"
                     => testResults[i].message = <<"Missing required packages">> \o NotImportable

C25_Witness ==
    /\ Len(testResults) >= 3 /\ testResults[3].status = "FAIL"
    /\ testResults[3].message = <<"Missing required packages", "vnstock", "pandas">>
    /\ testerPath # "null"

\* C26: verification and installation commands run strictly one after the
\* other: during startup verification and during DependencyInstaller.install
\* at most one interpreter/package-manager command is in flight at any time,
\* and a command is started only in the turn in which the one before it settled.
C26_OneCommandAtATime ==
    /\ [](/\ Len(inFlight) <= 1
          /\ (wrapper = "running" /\ wpc \in CommandPcs) => inFlight = <<wpc>>
          /\ (wrapper = "running" /\ wpc \notin CommandPcs) => inFlight = <<>>)
    /\ [][(inFlight' # inFlight /\ inFlight' # <<>> /\ inFlight # <<>>)
            => (wrapper = "running" /\ Settle(inFlight, wpc) = <<>>)]_vars

C26_Witness ==
    /\ mode = "installdeps" /\ inFlight = <<"i_verify">> /\ pkgIdx = 2
    /\ Len(installLog) = Len(installerPackages) /\ upgraded = "ok"

\* C27: main run with --help writes the help text (containing 'Vnstock MCP
\* Server') to the standard output of the process.
C27_HelpOnStdout ==
    mode = "help" => HelpText \in Range(logged["stdout"])

\* the help text is written once, to the standard error stream
HelpOnStderr ==
    mode = "help" => (logged["stderr"] = <<HelpText>> /\ logged["stdout"] = <<>>)

\* C28: when the handler of SIGINT or SIGTERM runs after the child was
\* spawned, the wrapper exits with code 0 whether or not the child has exited
\* and whatever exit code the child ends with: the child's status is not
\* propagated on the shutdown path.
C28_ShutdownExitsZero ==
    /\ [](timersArmed > 0 => (spawnCount = 1 /\ wrapper = "exited" /\ wrapperExit = 0))
    /\ [][timersArmed' > timersArmed
            => (wrapper' = "exited" /\ wrapperExit' = 0 /\ closeObserved' = closeObserved)]_vars

C28_Witness ==
    /\ timersArmed = 1 /\ wrapper = "exited" /\ wrapperExit = 0
    /\ child = "exited" /\ childStatus = 3 /\ ~closeObserved

\* C29: the child is only ever spawned with an interpreter whose version was
\* queried and found compatible: on every run that reaches the spawn,
\* pythonPath is set and names the candidate whose version check passed last.
C29_SpawnedWithCheckedInterpreter ==
    spawnCount > 0
        => /\ pythonPath \in Commands
           /\ versionLog # <<>>
           /\ LET last == versionLog[Len(versionLog)] IN
                /\ last.command = pythonPath
                /\ Compatible(last.out)
           /\ \A k \in DOMAIN versionLog :
                versionLog[k].command = pythonPath => Compatible(versionLog[k].out)

C29_Witness ==
    /\ spawnCount = 1 /\ child = "running"
    /\ pythonPath = "python3" /\ Len(versionLog) = 1
    /\ versionLog[1].out.text = VersionText(<<3, 11, 4>>)

\* the 'close' handler has run with code 0
ClosedWithZero == closeObserved /\ closeCode = 0

\* C30 as stated: after the child has closed with exit code 0 the wrapper
\* keeps running with its signal handlers installed, and it ends only when a
\* later signal arrives.
C30_EndsOnlyOnSignal ==
    /\ (ClosedWithZero /\ wrapper = "running") => handlers
    /\ (ClosedWithZero /\ wrapper = "exited") => timersArmed > 0

\* C30 as amended: the 'close' handler run with code 0 initiates no exit: the
\* wrapper keeps running, its signal handlers stay installed and stdin stays
\* resumed; afterwards the wrapper ends, with code 0, when a later signal
\* arrives or when its standard input ends.
C30_CloseZeroKeepsRunning ==
    /\ [][(~closeObserved /\ closeObserved' /\ closeCode' = 0)
            => /\ wrapper' = "running" /\ wpc' = "serving"
               /\ handlers' /\ stdinOpen' = stdinOpen]_vars
    /\ []((ClosedWithZero /\ wrapper = "running") => handlers)
    /\ []((ClosedWithZero /\ wrapper = "exited")
            => (wrapperExit = 0 /\ (timersArmed > 0 \/ ~stdinOpen)))
    /\ []((ClosedWithZero /\ stdinOpen /\ timersArmed = 0) => wrapper = "running")

C30_Witness ==
    /\ ClosedWithZero /\ wrapper = "running" /\ stdinOpen /\ handlers
    /\ envSignals = 0

\* startServer was called: initialize() returned true on a serving run
StartServerCalled ==
    /\ mode = "serve" /\ InitializeReturnedTrue
    /\ wpc \in {"serving", "done"}

\* C31: startServer checks its preconditions before any side effect: when the
\* Python server file does not exist or pythonPath is unset it throws before
\* the spawn, so no child is created, no signal handler is installed, stdin
\* is not resumed, and main exits with code 1. (After a successful
\* initialize() pythonPath is always set, so from main only the missing file
\* makes it throw.)
C31_PreconditionsBeforeEffects ==
    /\ (StartServerCalled /\ (~serverFileExists \/ pythonPath = "null"))
           => /\ spawnCount = 0 /\ child = "none"
              /\ ~handlers /\ ~stdinOpen
              /\ wrapper = "exited" /\ wrapperExit = 1
    /\ (spawnCount > 0 \/ child # "none" \/ handlers \/ stdinOpen)
           => (serverFileExists /\ pythonPath # "null")
    /\ StartServerCalled => pythonPath # "null"

C31_Witness ==
    /\ StartServerCalled /\ ~serverFileExists
    /\ wrapper = "exited" /\ wrapperExit = 1
    /\ spawnCount = 0 /\ ~handlers /\ installLog # <<>>

\* C32: the launcher never exits before its child on a signal: its SIGINT and
\* SIGTERM handlers only forward the signal to the wrapper and leave the
\* launcher running; the launcher terminates only in or after its child's
\* 'close' handler, or in the 'error' handler; every delivery handled while the
\* wrapper's handle is open is forwarded again, and SIGKILL is never sent.
C32_LauncherOutlivesChild ==
    /\ [](/\ launcher = "exited" => (wrapper # "running" /\ (launcherCloseSeen \/ wrapper = "notstarted"))
          /\ "SIGKILL" \notin Range(launcherSent)
          /\ Len(launcherSent) <= envSignals)
    /\ [][(launcher # "exited" /\ launcher' = "exited")
            => \/ launcherCloseSeen'
               \/ launcherError /\ ~launcherError']_vars
    /\ [][\A signal \in Signals :
            (signal \in launcherSig /\ signal \notin launcherSig')
                => /\ launcher = "running" /\ launcher' = "running"
                   /\ launcherExit' = launcherExit
                   /\ WrapperHandleOpen => launcherSent' = Append(launcherSent, signal)
                   /\ ~WrapperHandleOpen => launcherSent' = launcherSent]_vars

C32_Witness ==
    /\ launcher = "running" /\ launcherSig = {}
    /\ launcherSent = <<"SIGTERM", "SIGTERM">>
    /\ wrapper = "exited" /\ ~launcherCloseSeen

\* the names of DependencyInstaller.requiredPackages, in list order
InstallerNames == [i \in DOMAIN installerPackages |-> installerPackages[i].name]

\* C33: DependencyInstaller.install runs its steps in a fixed order: locate
\* the interpreter (python3, then python), upgrade pip, install the four
\* required packages in list order without checking whether they are already
\* importable, then verify the four packages in list order. A failed pip
\* upgrade changes nothing: the installs follow it as they follow a successful
\* one. install() returns true (the process exits 0) exactly when the
\* interpreter was located, every install succeeded and every verification
\* import succeeded.
C33_InstallerFixedOrder ==
    mode = "installdeps"
        => /\ IsPrefix(probeLog, pythonCommands)
           /\ upgraded # "none" => (installerPath # "null" /\ installerPath = probeLog[Len(probeLog)])
           /\ upgraded # "none" => (installLog # <<>> \/ (wpc = "i_install" /\ pkgIdx = 1))
           /\ installLog # <<>> => upgraded # "none"
           /\ IsPrefix([i \in DOMAIN installLog |-> installLog[i].package], InstallerNames)
           /\ \A i \in DOMAIN installLog : i < Len(installLog) => installLog[i].ok
           /\ checkLog # <<>>
                => (Len(installLog) = Len(installerPackages) /\ \A i \in DOMAIN installLog : installLog[i].ok)
           /\ IsPrefix([i \in DOMAIN checkLog |-> checkLog[i].package], InstallerNames)
           /\ \A i \in DOMAIN checkLog : i < Len(checkLog) => checkLog[i].ok
           /\ versionLog = <<>>
           /\ wrapper = "exited" => ((wrapperExit = 0) <=> InstallReturnedTrue)
           /\ wrapper = "exited" => wrapperExit \in {0, 1}

C33_Witness ==
    /\ mode = "installdeps" /\ wrapper = "exited" /\ wrapperExit = 0
    /\ upgraded = "failed" /\ importable0 = ImportNames
    /\ probeLog = pythonCommands
    /\ Len(installLog) = Len(installerPackages) /\ Len(checkLog) = Len(installerPackages)

\* some candidate of pythonCommands resolves on the search path
SomeResolves == \E c \in Commands : resolves[c]

\* C34: DependencyInstaller.locatePython and
\* ConnectionTester.testPythonInstallation select python3 whenever it
\* resolves, without any version query, and probe python only if python3 did
\* not resolve; they fail only when neither candidate resolves.
C34_FirstResolvingSelected ==
    /\ mode = "installdeps"
         => /\ IsPrefix(probeLog, pythonCommands)
            /\ "python" \in Range(probeLog) => ~resolves["python3"]
            /\ installerPath # "null"
                 => (installerPath = FirstResolving /\ probeLog[Len(probeLog)] = installerPath)
            /\ (probeLog # <<>> /\ resolves["python3"]) => installerPath = "python3"
            /\ (probeLog = pythonCommands /\ installerPath = "null")
                 <=> (~SomeResolves /\ wrapper = "exited" /\ probeLog # <<>>)
            /\ (~SomeResolves /\ wrapper = "exited") => (wrapperExit = 1 /\ upgraded = "none")
            /\ versionLog = <<>>
    /\ tester # "absent"
         => /\ IsPrefix(testerProbes, pythonCommands)
            /\ "python" \in Range(testerProbes) => ~resolves["python3"]
            /\ testerPath # "null"
                 => (testerPath = FirstResolving /\ testerProbes[Len(testerProbes)] = testerPath)
            /\ (testerProbes # <<>> /\ resolves["python3"]) => testerPath = "python3"
            /\ testResults # <<>>
                 => /\ testResults[1].name = "Python Installation"
                    /\ (testResults[1].status = "FAIL") <=> ~SomeResolves
                    /\ (testResults[1].status = "PASS") <=> (testerPath # "null")

C34_Witness ==
    /\ tester = "exited" /\ testerPath = "python3" /\ testerProbes = <<"python3">>
    /\ resolves["python"]
    /\ testResults[1].status = "PASS" /\ testResults[2].status = "FAIL"

\* the diagnostics recorded so far, by name
Recorded == [i \in DOMAIN testResults |-> testResults[i].name]

\* the number of records present while runTests awaits at position pc
RecordsAt(pc) ==
    CASE pc = "which" -> 0
      [] pc = "version" -> 1
      [] pc = "packages" -> 2
      [] pc = "network" -> 3
      [] pc = "market" -> 4
      [] OTHER -> Len(tests)

\* C35: runTests executes the six diagnostics in the listed order, one at a
\* time; a failing diagnostic neither aborts the run nor skips a later one;
\* when the run is over testResults holds exactly one record per diagnostic,
\* in execution order, each with status PASS or FAIL.
C35_AllSixInOrder ==
    /\ [](tester # "absent"
            => /\ IsPrefix(Recorded, tests)
               /\ \A i \in DOMAIN testResults : testResults[i].status \in {"PASS", "FAIL"}
               /\ Len(testResults) = RecordsAt(tpc)
               /\ (tester = "exited") <=> (tpc = "done")
               /\ tester = "exited" => Recorded = tests)
    /\ [][/\ IsPrefix(testResults, testResults')
          /\ tester = "exited" => testResults' = testResults]_vars

C35_Witness ==
    /\ tester = "exited" /\ Len(testResults) = Len(tests)
    /\ \A i \in DOMAIN testResults : testResults[i].status = "FAIL"

\* C36: the connection tester reports success (runTests returns true and the
\* standalone process exits with code 0) exactly when every recorded
\* diagnostic has status PASS; a single FAIL yields exit code 1; and when no
\* interpreter was located the version diagnostic fails without running any
\* interpreter.
C36_SuccessIffAllPass ==
    tester # "absent"
        => /\ tester = "exited"
                => /\ testerExit \in {0, 1}
                   /\ (testerExit = 0) <=> (\A i \in DOMAIN testResults : testResults[i].status = "PASS")
                   /\ (\E i \in DOMAIN testResults : testResults[i].status = "FAIL") => testerExit = 1
           /\ tester # "exited" => testerExit = NullCode
           /\ (testerPath = "null" /\ Len(testResults) >= 2)
                => /\ testResults[2] = FAIL("Python Version Compatibility",
                                            <<"Python path not available for version check">>)
                   /\ versionQueries = <<>>
           /\ Len(versionQueries) <= 1
           /\ \A i \in DOMAIN versionQueries : versionQueries[i] = testerPath /\ testerPath # "null"
           /\ (testerPath # "null" /\ Len(testResults) >= 2) => versionQueries = <<testerPath>>

C36_Witness ==
    /\ tester = "exited" /\ testerExit = 1
    /\ testerPath = "null" /\ versionQueries = <<>> /\ testerProbes = pythonCommands
    /\ testResults[2].status = "FAIL" /\ testResults[4].status = "PASS"
    /\ testResults[6].status = "PASS"

====
